---- MODULE Spec2Model ----
(***************************************************************************)
(* A model of the go-kart racing line finder                               *)
(* (src/go_kart_racing_line_finder_single_file_react_app.jsx): the         *)
(* geometry helpers, the lap simulator, the React component's state and    *)
(* handlers, and optimizeRacingLine as far as a run of the component gets. *)
(*                                                                         *)
(* Numbers.  The program computes in IEEE doubles; the model computes in   *)
(* integers.  A coordinate or a length is a count of 1/Sub pixel, a        *)
(* distance on the track is in micrometres, a speed in um/s, an energy (a  *)
(* squared speed) in mm^2/s^2, an acceleration in cm/s^2 and a lap time in *)
(* microseconds; pxToMeter is in cm per pixel and tyreMu in tenths.        *)
(* Coordinates, lengths and quotients round to the nearest unit (a         *)
(* resampled or smoothed point is within a few units of the program's),    *)
(* the root of an energy rounds down and a turn radius keeps a 28-bit      *)
(* mantissa.  A number too large for the model's integers is Saturated,    *)
(* NaN is a value of its own and a scale of Infinity is one too.  The      *)
(* model's lap times                                                       *)
(* follow the program's to within 0.02 % on the paths it uses              *)
(* (coordinates within 128 pixels, neighbouring samples less than 64       *)
(* pixels apart); they do not reproduce the last digits of a double.  A    *)
(* point {x, y} is the tuple <<x, y>>, a path is a sequence of points      *)
(* (index 1 is the program's index 0).  null is the empty sequence <<>>    *)
(* and a present value v is <<v>>.                                         *)
(*                                                                         *)
(* Scope.  The model has the handlers that write the state above: the      *)
(* mouse handlers with and without Shift (drawing and calibration), the    *)
(* mode buttons, autoTraceEdges, computeCenterlineFromEdges, clearAll,     *)
(* the number inputs of the physics values and of the iterations, the      *)
(* Simulate Lap and Optimize Line buttons.  The image upload (the image    *)
(* shows in the model only as the rows autoTraceEdges finds), the          *)
(* drawing of the canvas and the exports are left out.  optimizeRacingLine *)
(* is modelled from its entry to the statement before its search loop      *)
(* (lines 185-212): every call ends there, by the alert of line 185, by    *)
(* the TypeError of line 205 or by the return of line 211, so the search   *)
(* loop of lines 214-232 runs in no state of the component and has no      *)
(* action here (LoopNeverEntered).                                         *)
(*                                                                         *)
(* Specifications.  Spec is the component from construction.  CancelSpec   *)
(* is Spec with the external cancel request the specification describes.   *)
(* GeomSpec and SimSpec apply the geometry helpers and the lap simulator   *)
(* to bounded inputs.                                                      *)
(***************************************************************************)
EXTENDS Integers, Sequences, FiniteSets, TLC

VARIABLES
    \* ---- React state of the component (useState, lines 16-33)
    leftPoints, rightPoints, centerline, racingLine, lapTime,
    mode, isDrawing, params, calibrationPoints, optIterations, optimizing,
    optProgress,
    \* ---- where the last call of optimizeRacingLine stands, and the locals
    \*      it brings to its search loop (lines 185-212)
    pc, iterations, path, candidate, normals, allowed, bestTime,
    \* ---- the external cancel request the specification describes
    cancelRequested,
    \* ---- a call of a pure helper under examination
    call

uiVars  == <<leftPoints, rightPoints, centerline, racingLine, lapTime,
             mode, isDrawing, params, calibrationPoints, optIterations,
             optimizing, optProgress>>
runVars == <<pc, iterations, path, candidate, normals, allowed, bestTime>>
envVars == <<cancelRequested>>
vars    == <<uiVars, runVars, envVars, call>>

-----------------------------------------------------------------------------
(* Fixed-point arithmetic                                                  *)

\* Units per pixel.
Sub == 8388608

Abs(a) == IF a < 0 THEN 0 - a ELSE a
Min2(a, b) == IF a < b THEN a ELSE b
Max2(a, b) == IF a > b THEN a ELSE b
Sign(a) == IF a < 0 THEN -1 ELSE 1

\* a / b rounded to the nearest integer (a half rounds up), b > 0.
RDiv(a, b) == a \div b + (IF 2 * (a % b) >= b THEN 1 ELSE 0)

\* Math.round(a / b) for a >= 0, b > 0: floor(a/b + 0.5).
MathRound(a, b) == a \div b + (IF 2 * (a % b) >= b THEN 1 ELSE 0)

RECURSIVE SqrtSearch(_, _, _)
SqrtSearch(n, lo, hi) ==
    IF lo >= hi THEN lo
    ELSE LET mid == (lo + hi + 1) \div 2
         IN IF mid * mid <= n THEN SqrtSearch(n, mid, hi)
            ELSE SqrtSearch(n, lo, mid - 1)

\* floor(sqrt(n)), 0 <= n < 2^31: the search starts from the range the size
\* of n puts the root in.
ISqrt(n) ==
    IF n < 65536 THEN (IF n < 256 THEN SqrtSearch(n, 0, 15)
                       ELSE SqrtSearch(n, 16, 255))
    ELSE IF n < 16777216 THEN SqrtSearch(n, 256, 4095)
    ELSE SqrtSearch(n, 4096, 46340)

\* sqrt(n) rounded to the nearest integer: r + 1 when n > r^2 + r.
RoundedRoot(n, r) == IF n - r * r > r THEN r + 1 ELSE r
RSqrt(n) == RoundedRoot(n, ISqrt(n))

\* 2^k
RECURSIVE Pow2(_)
Pow2(k) == IF k = 0 THEN 1 ELSE 2 * Pow2(k - 1)

\* The number of binary digits of n >= 0 above the 15th: the smallest s with
\* n < 2^(15 + s).
Limb == 32768
RECURSIVE Excess(_)
Excess(n) == IF n < Limb THEN 0 ELSE 1 + Excess(n \div 2)

\* The largest integer of the model; a result that would exceed it is
\* reported as this value.
Saturated == 2147483647

\* x * b = q * c + r with 0 <= r < c, for 0 <= x < c and b >= 0, taking b
\* digit by digit in the base k, 2 <= k <= Saturated \div (2 * c); q stops at
\* Saturated.
MulDivDigit(h, x, d, c, k) ==
    IF h.q > Saturated \div k - 2 THEN [q |-> Saturated, r |-> 0]
    ELSE [q |-> k * h.q + (k * h.r + d * x) \div c,
          r |-> (k * h.r + d * x) % c]
RECURSIVE MulDivQR(_, _, _, _)
MulDivQR(x, b, c, k) ==
    IF b = 0 THEN [q |-> 0, r |-> 0]
    ELSE MulDivDigit(MulDivQR(x, b \div k, c, k), x, b % k, c, k)

\* a * b / c as a whole part q and a remainder r, a * b = q * c + r with
\* 0 <= r < c; a, b >= 0, 0 < c < 2^29.  A whole part that does not fit is
\* Saturated, with the remainder 0.
MulDivJoin(qa, b, part) ==
    IF part.q = Saturated THEN [q |-> Saturated, r |-> 0]
    ELSE IF qa = 0 THEN part
    ELSE IF qa > Saturated \div b THEN [q |-> Saturated, r |-> 0]
    ELSE IF part.q > Saturated - qa * b THEN [q |-> Saturated, r |-> 0]
    ELSE [q |-> qa * b + part.q, r |-> part.r]
MulDivFloor(a, b, c) ==
    IF a = 0 \/ b <= Saturated \div a
    THEN [q |-> (a * b) \div c, r |-> (a * b) % c]
    ELSE MulDivJoin(a \div c, b,
                    MulDivQR(a % c, b, c,
                             Min2(46340, Saturated \div (2 * c))))

\* a * b / c rounded to the nearest integer, or Saturated when that does not
\* fit; a, b >= 0, 0 < c < 2^29.
RoundUp(p, c) ==
    IF p.q = Saturated THEN Saturated
    ELSE p.q + (IF 2 * p.r >= c THEN 1 ELSE 0)
MulDiv(a, b, c) == RoundUp(MulDivFloor(a, b, c), c)

\* a * b / c for a and b of either sign, rounded to the nearest integer.
SignedMulDiv(a, b, c) == Sign(a) * Sign(b) * MulDiv(Abs(a), Abs(b), c)

\* a * b = hi * 2^30 + lo with 0 <= lo < 2^30, for 0 <= a, b < 2^30: the
\* product of doubles, in full.
WideOf(ah, al, bh, bl, mid) ==
    [hi |-> ah * bh + mid \div Limb
            + ((mid % Limb) * Limb + al * bl) \div (Limb * Limb),
     lo |-> ((mid % Limb) * Limb + al * bl) % (Limb * Limb)]
Wide(a, b) ==
    WideOf(a \div Limb, a % Limb, b \div Limb, b % Limb,
           (a \div Limb) * (b % Limb) + (a % Limb) * (b \div Limb))

\* a * b - c * d for numbers of either sign below 2^29 in size, as a sign
\* and a size hi * 2^30 + lo; the sign of 0 is 0.
WideLess(x, y) == x.hi < y.hi \/ (x.hi = y.hi /\ x.lo < y.lo)
WideMinus(x, y) ==
    IF x.lo >= y.lo THEN [hi |-> x.hi - y.hi, lo |-> x.lo - y.lo]
    ELSE [hi |-> x.hi - y.hi - 1, lo |-> x.lo + Limb * Limb - y.lo]
WidePlus(x, y) ==
    [hi |-> x.hi + y.hi + (x.lo + y.lo) \div (Limb * Limb),
     lo |-> (x.lo + y.lo) % (Limb * Limb)]
SignOfProduct(a, b) == IF a = 0 \/ b = 0 THEN 0 ELSE Sign(a) * Sign(b)
WideDifference(sp, p, sq, q) ==
    IF sq = 0 THEN [sign |-> sp, size |-> p]
    ELSE IF sp = 0 THEN [sign |-> 0 - sq, size |-> q]
    ELSE IF sp # sq THEN [sign |-> sp, size |-> WidePlus(p, q)]
    ELSE IF WideLess(p, q) THEN [sign |-> 0 - sp, size |-> WideMinus(q, p)]
    ELSE IF WideLess(q, p) THEN [sign |-> sp, size |-> WideMinus(p, q)]
    ELSE [sign |-> 0, size |-> [hi |-> 0, lo |-> 0]]
ProductDifference(a, b, c, d) ==
    WideDifference(SignOfProduct(a, b), Wide(Abs(a), Abs(b)),
                   SignOfProduct(c, d), Wide(Abs(c), Abs(d)))

\* A number m * 2^e with 2^27 <= m < 2^28, for the quotients whose parts do
\* not fit an integer.  Digits below the 28 kept are dropped.
Mantissa == 134217728
RECURSIVE Normal(_)
Normal(x) ==
    IF x.m >= 2 * Mantissa THEN Normal([m |-> x.m \div 2, e |-> x.e + 1])
    ELSE IF x.m < Mantissa THEN Normal([m |-> 2 * x.m, e |-> x.e - 1])
    ELSE x
\* The number n > 0.
FloatFrom(n, s) ==
    IF s > 13 THEN [m |-> n \div Pow2(s - 13), e |-> s - 13]
    ELSE Normal([m |-> n * Pow2(13 - s), e |-> s - 13])
FloatOf(n) == FloatFrom(n, Excess(n))
FloatFromWide(w, s) ==
    IF s >= 13 THEN Normal([m |-> w.hi \div Pow2(s - 13), e |-> s + 17])
    ELSE Normal([m |-> w.hi * Pow2(13 - s) + w.lo \div Pow2(s + 17),
                 e |-> s + 17])
FloatOfWide(w) ==
    IF w.hi = 0 THEN FloatOf(w.lo) ELSE FloatFromWide(w, Excess(w.hi))
FloatOfProduct(w, e) ==
    Normal([m |-> 8 * w.hi + w.lo \div Mantissa, e |-> e])
FloatTimes(x, y) == FloatOfProduct(Wide(x.m, y.m), x.e + y.e + 27)
FloatOver(x, y) ==
    Normal([m |-> MulDivFloor(x.m, Mantissa, y.m).q, e |-> x.e - y.e - 27])
\* The whole part of x, or Saturated when it does not fit.
WholeOf(x) ==
    IF x.e > 3 THEN Saturated
    ELSE IF x.e >= 0 THEN x.m * Pow2(x.e)
    ELSE IF x.e < -28 THEN 0
    ELSE x.m \div Pow2(0 - x.e)

\* Math.hypot(dx, dy) in units, for |dx|, |dy| below 2^30 (128 pixels).  A
\* pair that fits 15 binary digits has the rounded root of the sum of its
\* squares.  A longer pair is split, dx = p * a + al and dy = p * b + bl
\* with p = 2^s and a, b of 15 digits: with r the root of n = a*a + b*b
\* rounded down, the length is p * r plus, to the first order,
\* (p * (n - r*r) / 2 + (a*al + b*bl) + (al*al + bl*bl) / (2 * p)) / r.
\* What is left out is below two units.
HypotFrom(p, a, al, b, bl, n, r) ==
    p * r + RDiv((p \div 2) * (n - r * r), r)
          + RDiv(a * al + b * bl, r)
          + RDiv((al * al + bl * bl) \div (2 * p), r)
HypotSplit(p, a, al, b, bl) ==
    HypotFrom(p, a, al, b, bl, a * a + b * b, ISqrt(a * a + b * b))
HypotOf(ax, ay, s) ==
    IF s = 0 THEN RSqrt(ax * ax + ay * ay)
    ELSE HypotSplit(Pow2(s), ax \div Pow2(s), ax % Pow2(s),
                    ay \div Pow2(s), ay % Pow2(s))
Hypot(dx, dy) == HypotOf(Abs(dx), Abs(dy), Excess(Max2(Abs(dx), Abs(dy))))

\* distance(a, b), line 127
distance(a, b) == Hypot(a[1] - b[1], a[2] - b[2])

-----------------------------------------------------------------------------
(* Geometry helpers, lines 128-129                                         *)

\* d of resamplePath: d[0] = 0, d[i] = d[i-1] + distance(pts[i], pts[i-1]).
RECURSIVE CumDist(_, _)
CumDist(pts, k) ==
    IF k = 1 THEN <<0>>
    ELSE LET prev == CumDist(pts, k - 1)
         IN Append(prev, prev[k - 1] + distance(pts[k], pts[k - 1]))

\* let j=0; while(j<d.length-1 && d[j+1]<t) j++   (1-based j here)
RECURSIVE SegmentOf(_, _, _)
SegmentOf(d, tt, j) ==
    IF j < Len(d) /\ d[j + 1] < tt THEN SegmentOf(d, tt, j + 1) ELSE j

\* The point resamplePath pushes for i (0..n): pts[j] + (pts[j+1] - pts[j])
\* * tt with tt = (t - d[j]) / (d[j+1] - d[j] || 1).
PointAlong(p, q, num, den) ==
    <<p[1] + SignedMulDiv(q[1] - p[1], num, den),
      p[2] + SignedMulDiv(q[2] - p[2], num, den)>>
ResampleWithin(pts, d, tpos, j) ==
    PointAlong(pts[j], pts[j + 1], tpos - d[j],
               IF d[j + 1] - d[j] = 0 THEN Sub ELSE d[j + 1] - d[j])
ResamplePoint(pts, d, total, n, i) ==
    ResampleWithin(pts, d, MulDiv(i, total, n),
                   SegmentOf(d, MulDiv(i, total, n), 1))

\* total of resamplePath over the first k points.
ArcLength(pts, k) == IF k <= 1 THEN 0 ELSE CumDist(pts, k)[k]

\* The number n of resamplePath: Math.max(2, Math.round(total / spacing)).
CountFor(total, spacing) == Max2(2, MathRound(total, spacing * Sub))
ResampleCount(pts, spacing) == CountFor(ArcLength(pts, Len(pts)), spacing)

\* A variant whose loop stops before n (i < n): n points.
ResampleAll(pts, d, n, count) ==
    [k \in 1..count |-> ResamplePoint(pts, d, d[Len(d)], n, k - 1)]
ResampleExclusive(pts, d, n) == ResampleAll(pts, d, n, n)
ResampleInclusive(pts, d, n) == ResampleAll(pts, d, n, n + 1)
ResampleAlong(pts, d, spacing) ==
    ResampleInclusive(pts, d, CountFor(d[Len(d)], spacing))
resamplePathExclusive(pts, spacing) ==
    IF Len(pts) < 2 THEN pts
    ELSE ResampleExclusive(pts, CumDist(pts, Len(pts)),
                           ResampleCount(pts, spacing))

\* resamplePath(pts, spacing), spacing in pixels.  for(let i=0;i<=n;i++)
\* pushes n + 1 points.
resamplePath(pts, spacing) ==
    IF Len(pts) < 2 THEN pts
    ELSE ResampleAlong(pts, CumDist(pts, Len(pts)), spacing)

\* q and r of smoothPath: the points at 25% and 75% of the segment p0 p1,
\* 0.75*p0 + 0.25*p1 and 0.25*p0 + 0.75*p1.
CutNear(p0, p1) ==
    <<p0[1] + RDiv(p1[1] - p0[1], 4), p0[2] + RDiv(p1[2] - p0[2], 4)>>
CutFar(p0, p1) ==
    <<p1[1] + RDiv(p0[1] - p1[1], 4), p1[2] + RDiv(p0[2] - p1[2], 4)>>

\* A variant of the round that puts one midpoint on each segment instead
\* of two cut points: 2m - 1 points from m.
SmoothRoundMidpoints(cur) ==
    LET m == Len(cur)
    IN [k \in 1..(2 * m - 1) |->
          IF k % 2 = 1 THEN cur[(k + 1) \div 2]
          ELSE <<RDiv(cur[k \div 2][1] + cur[k \div 2 + 1][1], 2),
                 RDiv(cur[k \div 2][2] + cur[k \div 2 + 1][2], 2)>>]

\* One round of smoothPath: nxt = [cur[0], q0, r0, q1, r1, ..., cur[last]].
SmoothRound(cur) ==
    LET m == Len(cur)
    IN [k \in 1..(2 * m) |->
          IF k = 1 THEN cur[1]
          ELSE IF k = 2 * m THEN cur[m]
          ELSE IF k % 2 = 0 THEN CutNear(cur[k \div 2], cur[k \div 2 + 1])
          ELSE CutFar(cur[(k - 1) \div 2], cur[(k - 1) \div 2 + 1])]

RECURSIVE SmoothIter(_, _)
SmoothIter(cur, iters) ==
    IF iters <= 0 THEN cur ELSE SmoothIter(SmoothRound(cur), iters - 1)

\* smoothPath(pts, iters)
smoothPath(pts, iters) ==
    IF Len(pts) < 3 THEN pts ELSE SmoothIter(pts, iters)

-----------------------------------------------------------------------------
(* Curvature and the lap simulator, lines 134-182                          *)

\* The value of Math.sqrt of a negative number, and of any arithmetic on it.
NaN == -1000000000

\* Infinity: the scale val / px of line 264 for two calibration clicks on
\* one pixel (px = 0) or for the text "Infinity" in the prompt, and the
\* distances, energies and times that come of it.
Infinity == Saturated

\* Math.min(a, b): NaN if an argument is NaN.
MathMin(a, b) == IF a = NaN \/ b = NaN THEN NaN ELSE Min2(a, b)

\* a + b of doubles that are not negative
Plus(a, b) ==
    IF a = NaN \/ b = NaN THEN NaN
    ELSE IF b > Saturated - a THEN Saturated ELSE a + b

\* v * v in mm^2/s^2 of a speed v in um/s
Square(v) == MulDiv(Abs(v), Abs(v), 1000000)

\* The steps of Newton's iteration for the root of 10^6 * e from a start x
\* above it: they fall until they reach the root rounded down.
NewtonStep(e, x) == (x + MulDivFloor(e, 1000000, x).q) \div 2
RECURSIVE NewtonRoot(_, _)
NewtonNext(e, x, y) == IF y >= x THEN x ELSE NewtonRoot(e, y)
NewtonRoot(e, x) == NewtonNext(e, x, NewtonStep(e, x))

\* The square root in um/s of e mm^2/s^2, e >= 0, rounded down: the root of
\* 10^6 * e.
RootOf(e) ==
    IF e <= Saturated \div 1000000 THEN ISqrt(1000000 * e)
    ELSE NewtonRoot(e, 1000 * (ISqrt(e) + 1))

\* Math.sqrt(e) of an energy e in mm^2/s^2, as a speed in um/s
MathSqrt(e) == IF e = NaN \/ e < 0 THEN NaN ELSE RootOf(e)

\* Math.min(cap, Math.sqrt(e)) for a cap in um/s and an energy e in
\* mm^2/s^2: the root is below the cap exactly when e is below cap * cap, and
\* only then it is taken.
MinWithRoot(cap, e) ==
    IF cap = NaN \/ e = NaN \/ e < 0 THEN NaN
    ELSE IF cap < 0 \/ e >= Square(cap) THEN cap
    ELSE RootOf(e)

\* v*v + 2*acc*d in mm^2/s^2: v in um/s, acc in cm/s^2, d in um.
EnergyWith(sq, gain, acc) ==
    IF acc >= 0 THEN Plus(sq, gain) ELSE sq - gain
\* 2*acc*Infinity is Infinity, -Infinity or (for acc = 0) NaN.
EnergySum(v, acc, d) ==
    IF v = NaN \/ d = NaN THEN NaN
    ELSE IF d = Infinity
    THEN (IF acc > 0 THEN Infinity ELSE IF acc < 0 THEN -Infinity ELSE NaN)
    ELSE EnergyWith(Square(v), MulDiv(2 * Abs(acc), d, 100), acc)

\* pts[(i-1+n)%n] and pts[(i+1)%n] for the 1-based index i.
PrevIdx(i, n) == IF i = 1 THEN n ELSE i - 1
NextIdx(i, n) == IF i = n THEN 1 ELSE i + 1

\* computeCurvature, per sample, for kappa = cross / ((len1*len2*(len1+len2))
\* || 1): cross in full (a sign and a size in squared units), len1 and len2
\* in units.  Neighbouring samples are less than 64 pixels apart.
CurvatureOf(dx1, dy1, dx2, dy2) ==
    [cross |-> ProductDifference(dx1, dy2, dy1, dx2),
     len1  |-> Hypot(dx1, dy1),
     len2  |-> Hypot(dx2, dy2)]
CurvatureThrough(p0, p1, p2) ==
    CurvatureOf(p1[1] - p0[1], p1[2] - p0[2], p2[1] - p1[1], p2[2] - p1[2])
CurvatureAt(pts, i) ==
    CurvatureThrough(pts[PrevIdx(i, Len(pts))], pts[i],
                     pts[NextIdx(i, Len(pts))])

\* The turn radius 1 / k in cm, k = |kappa| / px2m, for cross # 0:
\* len1 * len2 * (len1 + len2) * px2m / (|cross| * Sub).
RadiusCm(c, px2m) ==
    FloatOver(FloatTimes(FloatTimes(FloatOf(c.len1), FloatOf(c.len2)),
                         FloatTimes(FloatOf(c.len1 + c.len2), FloatOf(px2m))),
              FloatTimes(FloatOfWide(c.cross.size), FloatOf(Sub)))

\* k > 1e-8 of line 153, k per metre: the curvature is not 0 and the radius
\* is below 10^10 cm.
Curved(sign, r) ==
    sign # 0 /\ WholeOf(FloatOver(r, FloatOf(16))) < 625000000

\* g = 9.81 m/s^2 in cm/s^2, line 144
Gravity == 981
\* Math.max(0.5, ...) of line 153 in mm^2/s^2
GripFloor == 500000

\* tyreMu*g/k of line 153 in mm^2/s^2 for mu > 0 in tenths and the radius r
\* in cm: 10 * mu * g * r, or Saturated.
GripEnergy(mu, r) == WholeOf(FloatTimes(FloatOf(10 * mu * Gravity), r))

\* Math.sqrt(Math.max(0.5, tyreMu*g/k)) of line 153 in um/s, as far as it is
\* below the cap.
GripSpeedFor(e, cap) ==
    IF e >= Square(cap) THEN cap ELSE RootOf(Max2(GripFloor, e))
GripSpeed(mu, r, cap) ==
    IF mu <= 0 THEN RootOf(GripFloor)
    ELSE GripSpeedFor(GripEnergy(mu, r), cap)

\* simulateLap reads pxToMeter (line 145) and tyreMu (line 153) from the
\* component state of the render it was defined in, st below, and vTop,
\* enginePower and maxBrakeAccel from its options argument, opt.

\* speedLimit[i], lines 153-154.  The grip speed matters only below vTop, so
\* it is computed up to vTop (up to 0 for a negative vTop).
LimitFor(sign, r, mu, vTop) ==
    MathMin(IF Curved(sign, r) THEN GripSpeed(mu, r, Max2(0, vTop))
            ELSE vTop,
            vTop)
\* With a scale of Infinity the curvature |kappa| / px2m is 0.
LimitOf(c, opt, st) ==
    IF st.pxToMeter = Infinity THEN MathMin(opt.vTop, opt.vTop)
    ELSE LimitFor(c.cross.sign, RadiusCm(c, st.pxToMeter), st.tyreMu,
                  opt.vTop)
SpeedLimitAt(pts, i, opt, st) == LimitOf(CurvatureAt(pts, i), opt, st)

\* dist[i], lines 148-149, in um; the last entry closes the loop.  With a
\* scale of Infinity a segment of length 0 gives 0 * Infinity = NaN and any
\* other segment Infinity.
ScaledBy(len, px2m) ==
    IF px2m = Infinity THEN (IF len = 0 THEN NaN ELSE Infinity)
    ELSE MulDiv(len, 10000 * px2m, Sub)
SegmentDist(pts, i, st) ==
    ScaledBy(distance(pts[NextIdx(i, Len(pts))], pts[i]), st.pxToMeter)

\* a_forward, line 160:
\* Math.min(enginePower / Math.max(1, enginePower/1e3), 3.5), in cm/s^2.
AForward(power) ==
    IF power >= 1000 THEN 350 ELSE Min2(100 * power, 350)

\* The loops over the samples are folded by halves: the steps lo..hi are the
\* steps lo..mid followed by the steps mid+1..hi, which is the loop's order.
\* The test Len(half) > 0 holds always (v has an entry from the start); it
\* makes the first half's result a value before the second half starts.

\* One step of a variant of the forward pass that takes vmax without
\* clamping it to the speed limit and the top speed.
ForwardStepUnclamped(v, limit, dist, opt, k) ==
    Append(v, MathSqrt(EnergySum(v[k - 1], AForward(opt.enginePower),
                                 dist[k - 1])))

RECURSIVE ForwardScanUnclamped(_, _, _, _, _, _)
ForwardScanUnclamped(v, limit, dist, opt, lo, hi) ==
    IF lo > hi THEN v
    ELSE IF lo = hi THEN ForwardStepUnclamped(v, limit, dist, opt, lo)
    ELSE LET mid  == (lo + hi) \div 2
             half == ForwardScanUnclamped(v, limit, dist, opt, lo, mid)
         IN IF Len(half) > 0
            THEN ForwardScanUnclamped(half, limit, dist, opt, mid + 1, hi)
            ELSE half

ForwardPassUnclamped(limit, dist, opt, k) ==
    ForwardScanUnclamped(<<MathMin(limit[1], opt.vTop)>>, limit, dist, opt, 2, k)

\* One step of the forward pass, lines 158-163, at the 1-based index k >= 2.
\* v[i] = Math.min(speedLimit[i], vmax, opt.vTop) with vmax the root of the
\* energy sum.
ForwardStep(v, limit, dist, opt, k) ==
    Append(v, MinWithRoot(MathMin(limit[k], opt.vTop),
                          EnergySum(v[k - 1], AForward(opt.enginePower),
                                    dist[k - 1])))

\* for(let i=1;i<n;i++) of line 158, the steps lo..hi.
RECURSIVE ForwardScan(_, _, _, _, _, _)
ForwardScan(v, limit, dist, opt, lo, hi) ==
    IF lo > hi THEN v
    ELSE IF lo = hi THEN ForwardStep(v, limit, dist, opt, lo)
    ELSE LET mid  == (lo + hi) \div 2
             half == ForwardScan(v, limit, dist, opt, lo, mid)
         IN IF Len(half) > 0
            THEN ForwardScan(half, limit, dist, opt, mid + 1, hi)
            ELSE half

\* The forward pass, lines 157-164: v[0..k-1] for the first k samples.
ForwardPass(limit, dist, opt, k) ==
    ForwardScan(<<MathMin(limit[1], opt.vTop)>>, limit, dist, opt, 2, k)

\* One step of the backward pass, lines 168-171, at the 1-based index i.
\* v[i] > v_allow, v_allow the root of the energy e, holds exactly when
\* v[i] > 0 and v[i] * v[i] > e >= 0 (no comparison with NaN holds), and
\* Math.max(0, v_allow) is v_allow then.
BrakeTo(v, i, e) ==
    IF v[i] = NaN \/ e = NaN \/ e < 0 THEN v
    ELSE IF v[i] > 0 /\ Square(v[i]) > e THEN [v EXCEPT ![i] = RootOf(e)]
    ELSE v
BrakeAt(v, dist, opt, i) ==
    BrakeTo(v, i, EnergySum(v[i + 1], opt.maxBrakeAccel, dist[i]))

\* for(let i=n-2;i>=0;i--): the steps hi down to lo of one round.
RECURSIVE BackwardFrom(_, _, _, _, _)
BackwardFrom(v, dist, opt, lo, hi) ==
    IF lo > hi THEN v
    ELSE IF lo = hi THEN BrakeAt(v, dist, opt, lo)
    ELSE LET mid  == (lo + hi) \div 2
             half == BackwardFrom(v, dist, opt, mid + 1, hi)
         IN IF Len(half) > 0 THEN BackwardFrom(half, dist, opt, lo, mid)
            ELSE half
BackwardRound(v, dist, opt) == BackwardFrom(v, dist, opt, 1, Len(v) - 1)

\* Rounds of the backward pass, line 166.
BackwardRounds == 3

RECURSIVE BackwardPass(_, _, _, _)
BackwardPass(v, dist, opt, rounds) ==
    IF rounds = 0 THEN v
    ELSE BackwardPass(BackwardRound(v, dist, opt), dist, opt, rounds - 1)

\* Parts of a microsecond the terms of the lap time are kept to.
Fine == 64

\* ti = d / Math.max(0.1, vi) (lines 176-179): d in um over vi in um/s is
\* d * 10^6 / vi microseconds, kept as whole microseconds (us) and the rest
\* in 1/Fine microsecond (fine).  us is NaN for a speed or a distance that
\* is NaN, and Infinity for a distance that is.
TimeParts(p, c) == [us |-> p.q, fine |-> MulDiv(p.r, Fine, c)]
TimeOver(d, c) == TimeParts(MulDivFloor(d, 1000000, c), c)
TimeAt(v, dist, k) ==
    IF v[k] = NaN \/ dist[k] = NaN THEN [us |-> NaN, fine |-> 0]
    ELSE IF dist[k] = Infinity THEN [us |-> Infinity, fine |-> 0]
    ELSE TimeOver(dist[k], Max2(100000, v[k]))

\* totalT += ti
TimeAdd(a, b) == [us |-> Plus(a.us, b.us), fine |-> a.fine + b.fine]

\* totalT of lines 175-180 over the samples lo..hi.
RECURSIVE TimeSum(_, _, _, _)
TimeSum(v, dist, lo, hi) ==
    IF lo > hi THEN [us |-> 0, fine |-> 0]
    ELSE IF lo = hi THEN TimeAt(v, dist, lo)
    ELSE LET mid == (lo + hi) \div 2
         IN TimeAdd(TimeSum(v, dist, lo, mid), TimeSum(v, dist, mid + 1, hi))

\* The total in microseconds, rounded once.
Rounded(total) ==
    IF total.us = NaN THEN NaN ELSE Plus(total.us, RDiv(total.fine, Fine))
TotalTime(v, dist, k) == Rounded(TimeSum(v, dist, 1, k))

SimDist(pts, st) == [i \in 1..Len(pts) |-> SegmentDist(pts, i, st)]
SimLimit(pts, opt, st) ==
    [i \in 1..Len(pts) |-> SpeedLimitAt(pts, i, opt, st)]

\* The speed profile after both passes, lines 157-173.
SimProfile(dist, limit, opt, n) ==
    CHOOSE v \in {BackwardPass(f, dist, opt, BackwardRounds) :
                    f \in {ForwardPass(limit, dist, opt, n)}} : TRUE

\* The record of line 181.
SimResult(dist, limit, v, n) ==
    [time |-> TotalTime(v, dist, n), speedProfile |-> v,
     dist |-> dist, speedLimit |-> limit]

\* simulateLap(path, options) in a render whose state is st: <<>> for null,
\* else <<the result>>.  dist, speedLimit and v are bound one after the
\* other, each computed once.
simulateLap(pts, opt, st) ==
    IF Len(pts) < 2 THEN <<>>
    ELSE CHOOSE out \in
           {<<SimResult(q.dist, q.limit, q.v, Len(pts))>> :
              q \in {[dist |-> d, limit |-> l,
                      v |-> SimProfile(d, l, opt, Len(pts))] :
                        d \in {SimDist(pts, st)},
                        l \in {SimLimit(pts, opt, st)}}} : TRUE

-----------------------------------------------------------------------------
(* The component after construction, lines 16-33                           *)

\* useState defaults of the physics inputs (lines 22-28): 0.2 m/px, 160 kg,
\* mu 1.6, 7.5 m/s^2, 8500 W, 22 m/s.  pxToMeter is in cm per pixel,
\* kartMass in kg, tyreMu in tenths, maxBrakeAccel in cm/s^2, enginePower in
\* W, vTop in um/s.  Nothing reads kartMass but its input.
DefaultParams ==
    [pxToMeter |-> 20, kartMass |-> 160, tyreMu |-> 16, maxBrakeAccel |-> 750,
     enginePower |-> 8500, vTop |-> 22000000]

\* useState(300), line 31
DefaultIterations == 300

\* The state of the component with nothing drawn and the physics inputs
\* holding p.
UiWith(p) ==
    /\ leftPoints = <<>> /\ rightPoints = <<>>
    /\ centerline = <<>> /\ racingLine = <<>>
    /\ lapTime = <<>>
    /\ mode = "left" /\ isDrawing = FALSE
    /\ params = p
    /\ calibrationPoints = <<>>
    /\ optIterations = DefaultIterations
    /\ optimizing = FALSE
    /\ optProgress = <<0, 1>>

InitUi == UiWith(DefaultParams)

\* No optimizeRacingLine call is in progress.
NoRun ==
    /\ pc = "idle" /\ iterations = 0
    /\ path = <<>> /\ candidate = <<>> /\ normals = <<>> /\ allowed = <<>>
    /\ bestTime = 0

\* No cancel was requested.
NoEnv == cancelRequested = FALSE

NoCall == [op |-> "none"]

-----------------------------------------------------------------------------
(* optimizeRacingLine up to the search loop, lines 185-212                 *)

\* Spacing of the edge resampling, in pixels (lines 131, 187).
EdgeSpacing == 3
\* Smoothing rounds of the centerline (line 131), of the optimizer's seed
\* path (line 191) and of every perturbed candidate (line 222).
CenterlineRounds == 4
SeedRounds == 3
TrialRounds == 2

\* Units of a normal's components: nx, ny are counts of 1/NormUnit.
NormUnit == 32768

\* A variant of the pairing that stops one pair short of the shorter edge.
MidpointsShort(left, right) ==
    [i \in 1..(Min2(Len(left), Len(right)) - 1) |->
        <<RDiv(left[i][1] + right[i][1], 2), RDiv(left[i][2] + right[i][2], 2)>>]

\* center of lines 131 and 189-190: midpoints of left[i], right[i], i < n.
Midpoints(left, right) ==
    [i \in 1..Min2(Len(left), Len(right)) |->
        <<RDiv(left[i][1] + right[i][1], 2), RDiv(left[i][2] + right[i][2], 2)>>]

\* a / (Math.hypot(tx, ty) || 1) in 1/NormUnit, for a component a of the
\* tangent (tx, ty); a tangent of 32 pixels or more is taken in 4 units.
UnitScaled(a, len, s) == Sign(a) * MulDiv(Abs(a) \div s, NormUnit, len \div s)
UnitComponent(a, len) ==
    IF len = 0 THEN 0
    ELSE UnitScaled(a, len, IF len >= 268435456 THEN 4 ELSE 1)

\* normals[i], line 196: the tangent p1 - p0 of the neighbours (the path
\* taken as a loop), turned by 90 degrees and divided by its length || 1.
NormalTo(tx, ty, len) ==
    [nx |-> UnitComponent(0 - ty, len), ny |-> UnitComponent(tx, len)]
NormalAlong(p1, p0) ==
    NormalTo(p1[1] - p0[1], p1[2] - p0[2], distance(p1, p0))
NormalAt(cand, i) ==
    NormalAlong(cand[NextIdx(i, Len(cand))], cand[PrevIdx(i, Len(cand))])

Normals(cand) == [i \in 1..Len(cand) |-> NormalAt(cand, i)]

\* Math.round(i*edge.length/candidate.length) of line 204, i counted from 0.
EdgeIndex(i, edgeLen, candLen) == MathRound(i * edgeLen, candLen)

\* Line 204 reads left[...] and right[...] and line 205 reads .x of both:
\* an index that is not below the edge's length gives undefined, and the
\* read of undefined.x throws a TypeError.
LookupThrows(i, left, right, candLen) ==
    \/ EdgeIndex(i, Len(left), candLen) >= Len(left)
    \/ EdgeIndex(i, Len(right), candLen) >= Len(right)

CorridorThrows(cand, left, right) ==
    \E i \in 0..(Len(cand) - 1) : LookupThrows(i, left, right, Len(cand))

\* (lp.x-c.x)*nx + (lp.y-c.y)*ny, line 205
Projection(lp, c, nrm) ==
    SignedMulDiv(lp[1] - c[1], nrm.nx, NormUnit)
    + SignedMulDiv(lp[2] - c[2], nrm.ny, NormUnit)

\* allowed[i] of line 207 from the edge points lp and rp.
BoundsOf(dl, dr) == [min |-> Min2(dl, dr), max |-> Max2(dl, dr)]
BoundsFrom(lp, rp, c, nrm) ==
    BoundsOf(Projection(lp, c, nrm), Projection(rp, c, nrm))

\* allowed, lines 199-208, when no lookup throws.
Corridor(cand, nrms, left, right) ==
    [k \in 1..Len(cand) |->
        BoundsFrom(left[EdgeIndex(k - 1, Len(left), Len(cand)) + 1],
                   right[EdgeIndex(k - 1, Len(right), Len(cand)) + 1],
                   cand[k], nrms[k])]

\* The seed path of line 191 from the edges in the React state.
SeedPath(lpts, rpts) ==
    smoothPath(Midpoints(resamplePath(lpts, EdgeSpacing),
                         resamplePath(rpts, EdgeSpacing)), SeedRounds)

-----------------------------------------------------------------------------
(* Handlers of the component                                               *)

\* Most points an edge holds in the model.
MaxEdgePts == 5

\* Distance of the two traced edges, in pixels.
StrokeWidth == 4

\* Pointer positions of the mouse events: the user traces the left edge
\* along y = 0 in steps of 1.5 px and the right edge along y = width in
\* steps of 3 px, so the k-th point of an edge lies at the k-th stroke
\* position (k from 0).
LeftStrokeAt(k) == <<(3 * Sub * k) \div 2, 0>>
RightStrokeAt(k, width) == <<3 * Sub * k, width * Sub>>
MousePoints ==
    IF mode = "left"
    THEN {LeftStrokeAt(Len(leftPoints))}
    ELSE {RightStrokeAt(Len(rightPoints), StrokeWidth)}

\* Pointer position of the k-th calibration click (k from 0): the clicks are
\* 6 px apart.
CalibrationClickAt(k) == <<6 * Sub * (k % 2), 0>>

\* What the prompt of line 263 gives: <<>> for a cancelled prompt or a text
\* that is no positive number, else <<the distance in cm>>.
KnownDistances == {<<>>, <<600>>}

\* Values typed into the number inputs of lines 300-308 and 329, in the
\* units of params; a typed 0 or an empty field keeps the current value.
MassInputs == {0, 160, 180}
PowerInputs == {0, -50, 8500}
TopSpeedInputs == {0, 22000000, 30000000}
BrakeInputs == {0, -750, 750}
GripInputs == {0, 12, 16}
IterationInputs == {0, 3, DefaultIterations}

\* parseFloat(value) || current, parseInt(value) || current
TypedOr(typed, current) == IF typed = 0 THEN current ELSE typed

\* Most settings (the six physics values, the iterations, the calibration)
\* that differ from their defaults at a time.
MaxEdited == 1

EditedPhysics(p) ==
    Cardinality({f \in DOMAIN DefaultParams : p[f] # DefaultParams[f]})
Edited(p, iters, cal) ==
    EditedPhysics(p)
    + (IF iters # DefaultIterations THEN 1 ELSE 0)
    + (IF cal # <<>> /\ p.pxToMeter = DefaultParams.pxToMeter THEN 1 ELSE 0)

\* The rows autoTraceEdges keeps (lines 112-121) for an image that shows a
\* vertical track with its edges at x = 4 and x = 31 in its first rows: the
\* Sobel magnitude is computed for x, y >= 1 only (lines 100-101), a row
\* counts when its outermost edge pixels are more than 20 px apart, and
\* every second such row is kept, so the k kept rows are y = 1, 3, 5, ...
TraceOf(k) ==
    [l |-> [j \in 1..k |-> <<4 * Sub, (2 * j - 1) * Sub>>],
     r |-> [j \in 1..k |-> <<31 * Sub, (2 * j - 1) * Sub>>]]

\* Numbers of kept rows of the images tried; 0 is an image without a row
\* that counts.
TraceRows == {0, 5}
Traces == {TraceOf(k) : k \in TraceRows}

\* A handler runs only while no other JavaScript runs: a call of
\* optimizeRacingLine gives way only when it ends or awaits (line 229).
HandlerMayRun == pc # "loop"

\* A user event is handled.
UserEvent == HandlerMayRun /\ UNCHANGED cancelRequested

\* setLeftPoints(prev => [...prev, p]) or setRightPoints, by mode.
AppendPoint(p) ==
    IF mode = "left"
    THEN /\ Len(leftPoints) < MaxEdgePts
         /\ leftPoints' = Append(leftPoints, p)
         /\ UNCHANGED rightPoints
    ELSE /\ Len(rightPoints) < MaxEdgePts
         /\ rightPoints' = Append(rightPoints, p)
         /\ UNCHANGED leftPoints

\* onMouseDown without Shift (line 274): handleMouseDown, lines 45-50
HandleMouseDown ==
    /\ UserEvent
    /\ \E p \in MousePoints : AppendPoint(p)
    /\ isDrawing' = TRUE
    /\ UNCHANGED <<centerline, racingLine, lapTime, mode, params,
                   calibrationPoints, optIterations, optimizing, optProgress,
                   runVars, call>>

\* onMouseDown with Shift (line 274): calibrateAddPoint, lines 263-264.  The
\* handler reads calibrationPoints of its render: with none the point is
\* kept; with one, a usable answer to the prompt sets pxToMeter to the known
\* distance over the distance of the two points and empties the list, and
\* any other answer leaves both points in the list; with two nothing
\* happens.
CalibrateAddPoint ==
    /\ UserEvent
    /\ LET p == CalibrationClickAt(Len(calibrationPoints))
       IN IF Len(calibrationPoints) = 0
          THEN /\ calibrationPoints' = <<p>>
               /\ UNCHANGED params
          ELSE IF Len(calibrationPoints) = 1
          THEN \E known \in KnownDistances :
                 IF known = <<>>
                 THEN /\ calibrationPoints' = Append(calibrationPoints, p)
                      /\ UNCHANGED params
                 ELSE /\ calibrationPoints' = <<>>
                      /\ params' = [params EXCEPT !.pxToMeter =
                            MulDiv(known[1], Sub,
                                   distance(calibrationPoints[1], p))]
          ELSE UNCHANGED <<calibrationPoints, params>>
    /\ Edited(params', optIterations, calibrationPoints') <= MaxEdited
    /\ UNCHANGED <<leftPoints, rightPoints, centerline, racingLine, lapTime,
                   mode, isDrawing, optIterations, optimizing, optProgress,
                   runVars, call>>

\* handleMouseMove, line 51: if(!isDrawing) return
HandleMouseMove ==
    /\ UserEvent
    /\ IF isDrawing THEN \E p \in MousePoints : AppendPoint(p)
       ELSE UNCHANGED <<leftPoints, rightPoints>>
    /\ UNCHANGED <<centerline, racingLine, lapTime, mode, isDrawing, params,
                   calibrationPoints, optIterations, optimizing, optProgress,
                   runVars, call>>

\* handleMouseUp and onMouseLeave, lines 52 and 277
HandleMouseUp ==
    /\ UserEvent
    /\ isDrawing' = FALSE
    /\ UNCHANGED <<leftPoints, rightPoints, centerline, racingLine, lapTime,
                   mode, params, calibrationPoints, optIterations, optimizing,
                   optProgress, runVars, call>>

\* The Draw Left Edge / Draw Right Edge buttons, lines 290-291
SetMode ==
    /\ UserEvent
    /\ \E m \in {"left", "right"} : mode' = m
    /\ UNCHANGED <<leftPoints, rightPoints, centerline, racingLine, lapTime,
                   isDrawing, params, calibrationPoints, optIterations,
                   optimizing, optProgress, runVars, call>>

\* autoTraceEdges, lines 88-124: without a usable image nothing is set
\* (line 91); otherwise setLeftPoints(l2); setRightPoints(r2).
AutoTraceEdges ==
    /\ UserEvent
    /\ \/ UNCHANGED <<leftPoints, rightPoints>>
       \/ \E tr \in Traces : leftPoints' = tr.l /\ rightPoints' = tr.r
    /\ UNCHANGED <<centerline, racingLine, lapTime, mode, isDrawing, params,
                   calibrationPoints, optIterations, optimizing, optProgress,
                   runVars, call>>

\* Fewest edge points computeCenterlineFromEdges accepts, and fewest
\* centerline points optimizeRacingLine accepts (lines 131, 185).
MinEdgePts == 5
MinCenterPts == 5

\* The centerline line 131 builds from two edges: the midpoints of the
\* resampled edges, smoothed.
CenterlineOf(left, right) ==
    smoothPath(Midpoints(resamplePath(left, EdgeSpacing),
                         resamplePath(right, EdgeSpacing)),
               CenterlineRounds)

\* computeCenterlineFromEdges, line 131
ComputeCenterlineFromEdges ==
    /\ UserEvent
    /\ IF Len(leftPoints) < MinEdgePts \/ Len(rightPoints) < MinEdgePts
       THEN UNCHANGED <<centerline, racingLine, lapTime>>
       ELSE LET sm == CenterlineOf(leftPoints, rightPoints)
            IN /\ centerline' = sm
               /\ racingLine' = sm
               /\ lapTime' = <<>>
    /\ UNCHANGED <<leftPoints, rightPoints, mode, isDrawing, params,
                   calibrationPoints, optIterations, optimizing, optProgress,
                   runVars, call>>

\* clearAll, line 261
ClearAll ==
    /\ UserEvent
    /\ leftPoints' = <<>> /\ rightPoints' = <<>>
    /\ centerline' = <<>> /\ racingLine' = <<>>
    /\ lapTime' = <<>>
    /\ UNCHANGED <<mode, isDrawing, params, calibrationPoints, optIterations,
                   optimizing, optProgress, runVars, call>>

\* A number is typed into the input of the field f of the physics values.
TypeParam(f, typed) ==
    /\ params' = [params EXCEPT ![f] = TypedOr(typed, params[f])]
    /\ Edited(params', optIterations, calibrationPoints) <= MaxEdited
    /\ UNCHANGED <<leftPoints, rightPoints, centerline, racingLine, lapTime,
                   mode, isDrawing, calibrationPoints, optIterations,
                   optimizing, optProgress, runVars, call>>

\* The Mass input, line 300: parseFloat(value) || kartMass
SetKartMass ==
    UserEvent /\ \E w \in MassInputs : TypeParam("kartMass", w)

\* The Engine power input, line 302: parseFloat(value) || enginePower
SetEnginePower ==
    UserEvent /\ \E w \in PowerInputs : TypeParam("enginePower", w)

\* The Top speed input, line 304: parseFloat(value) || vTop
SetVTop ==
    UserEvent /\ \E w \in TopSpeedInputs : TypeParam("vTop", w)

\* The Brake decel input, line 306: parseFloat(value) || maxBrakeAccel
SetMaxBrakeAccel ==
    UserEvent /\ \E w \in BrakeInputs : TypeParam("maxBrakeAccel", w)

\* The Tire mu input, line 308: parseFloat(value) || tyreMu
SetTyreMu ==
    UserEvent /\ \E w \in GripInputs : TypeParam("tyreMu", w)

\* The Optimizer iterations input, line 329: parseInt(value) || optIterations
SetOptIterations ==
    /\ UserEvent
    /\ \E k \in IterationInputs : optIterations' = TypedOr(k, optIterations)
    /\ Edited(params, optIterations', calibrationPoints) <= MaxEdited
    /\ UNCHANGED <<leftPoints, rightPoints, centerline, racingLine, lapTime,
                   mode, isDrawing, params, calibrationPoints, optimizing,
                   optProgress, runVars, call>>

-----------------------------------------------------------------------------
(* The Simulate Lap and Optimize Line buttons                              *)

\* The edges of n points the handlers above give after a trace of k rows:
\* the traced rows, then stroke positions.
LeftEdge(k, n) ==
    [j \in 1..n |-> IF j <= k THEN TraceOf(k).l[j] ELSE LeftStrokeAt(j - 1)]
RightEdge(k, n) ==
    [j \in 1..n |-> IF j <= k THEN TraceOf(k).r[j]
                    ELSE RightStrokeAt(j - 1, StrokeWidth)]

\* The centerlines of those edges, and the physics values within MaxEdited
\* edits of the defaults.
KnownLines ==
    {CenterlineOf(e.left, e.right) :
        e \in {[left |-> LeftEdge(k, n), right |-> RightEdge(k, m)] :
                 k \in TraceRows, n \in MinEdgePts..MaxEdgePts,
                 m \in MinEdgePts..MaxEdgePts}}
KnownSettings ==
    {p \in [pxToMeter : {DefaultParams.pxToMeter}
                          \cup {MulDiv(known[1], Sub,
                                        distance(CalibrationClickAt(0),
                                                 CalibrationClickAt(1))) :
                                   known \in KnownDistances \ {<<>>}},
             kartMass : MassInputs \ {0},
             tyreMu : GripInputs \ {0},
             maxBrakeAccel : BrakeInputs \ {0},
             enginePower : PowerInputs \ {0},
             vTop : TopSpeedInputs \ {0}] :
        EditedPhysics(p) <= MaxEdited}

\* simulateLap(c, {the values of st}).time in a render of state st, for the
\* lines c.
LapsOf(lines, st) ==
    {[pts |-> c, opt |-> st, time |-> simulateLap(c, st, st)[1].time] :
        c \in lines}

\* The lap times of the centerlines above for the settings above, each
\* computed once.
KnownLaps == UNION {LapsOf(KnownLines, p) : p \in KnownSettings}

\* sim ? <<sim.time>> : <<>> for sim = simulateLap(pts, {pxToMeter, tyreMu,
\* maxBrakeAccel, enginePower, vTop}) in a render of state st (lines 211,
\* 223 and 313 pass the render's values as the options).
SimTime(pts, st) ==
    CHOOSE time \in {IF s = <<>> THEN <<>> ELSE <<s[1].time>> :
                       s \in {simulateLap(pts, st, st)}} : TRUE

\* SimTime(pts, st), read from KnownLaps where it is there.
LapTimeOf(pts, st) ==
    CHOOSE time \in
      {IF known = {} THEN SimTime(pts, st)
       ELSE <<(CHOOSE e \in known : TRUE).time>> :
          known \in {{e \in KnownLaps : e.opt = st /\ e.pts = pts}}} : TRUE

\* The Simulate Lap button, line 313: setLapTime(sim.time) for the racing
\* line and the physics values of the render, or the alert.
SimulateClick ==
    /\ UserEvent
    /\ \E time \in {LapTimeOf(racingLine, params)} :
          IF time = <<>> THEN UNCHANGED lapTime
          ELSE lapTime' = time
    /\ UNCHANGED <<leftPoints, rightPoints, centerline, racingLine, mode,
                   isDrawing, params, calibrationPoints, optIterations,
                   optimizing, optProgress, runVars, call>>

\* A call of optimizeRacingLine that ends before its search loop (it
\* returned or threw): the locals hold nothing.
RunLocalsGone ==
    /\ iterations' = 0
    /\ path' = <<>> /\ candidate' = <<>> /\ normals' = <<>> /\ allowed' = <<>>
    /\ bestTime' = 0

\* disabled={optimizing} of the Optimize Line button, line 312
ButtonEnabled == ~optimizing

\* The Optimize Line button, line 312 (disabled while optimizing), and
\* optimizeRacingLine from its entry to the search loop, lines 185-212.
\*   - centerline.length < 5: the alert, nothing changes;
\*   - a corridor lookup throws: the async function rejects right after
\*     setOptimizing(true); setOptProgress(0), and nothing resets them;
\*   - simulateLap returns null: setOptimizing(false) and return;
\*   - otherwise the seed is published and the search loop begins.
OptimizeClick ==
    /\ UserEvent
    /\ ButtonEnabled
    /\ IF Len(centerline) < MinCenterPts
       THEN UNCHANGED <<racingLine, lapTime, optimizing, optProgress, runVars>>
       ELSE \E left  \in {resamplePath(leftPoints, EdgeSpacing)},
               right \in {resamplePath(rightPoints, EdgeSpacing)},
               seed  \in {SeedPath(leftPoints, rightPoints)} :
            \E nrms \in {Normals(seed)} :
               /\ optProgress' = <<0, 1>>
               /\ IF CorridorThrows(seed, left, right)
                  THEN /\ pc' = "crashed"
                       /\ optimizing' = TRUE
                       /\ UNCHANGED <<racingLine, lapTime>>
                       /\ RunLocalsGone
                  ELSE \E bestSim \in {simulateLap(seed, params, params)} :
                          IF bestSim = <<>>
                          THEN /\ pc' = "idle"
                               /\ optimizing' = FALSE
                               /\ UNCHANGED <<racingLine, lapTime>>
                               /\ RunLocalsGone
                          ELSE /\ pc' = "loop"
                               /\ optimizing' = TRUE
                               /\ iterations' = optIterations
                               /\ path' = seed /\ candidate' = seed
                               /\ normals' = nrms
                               /\ allowed' = Corridor(seed, nrms, left, right)
                               /\ bestTime' = bestSim[1].time
                               /\ racingLine' = seed
                               /\ lapTime' = <<bestSim[1].time>>
    /\ UNCHANGED <<leftPoints, rightPoints, centerline, mode, isDrawing,
                   params, calibrationPoints, optIterations, call>>

\* The component from construction on.  Next holds the handlers only: no
\* behaviour from Init brings a call of optimizeRacingLine to its search
\* loop, because every OptimizeClick ends before it (LoopNeverEntered is an
\* invariant of Spec).
Init == InitUi /\ NoRun /\ NoEnv /\ call = NoCall
Next ==
    \/ HandleMouseDown \/ CalibrateAddPoint \/ HandleMouseMove
    \/ HandleMouseUp \/ SetMode
    \/ AutoTraceEdges \/ ComputeCenterlineFromEdges \/ ClearAll
    \/ SetKartMass \/ SetEnginePower \/ SetVTop \/ SetMaxBrakeAccel
    \/ SetTyreMu
    \/ SetOptIterations \/ SimulateClick \/ OptimizeClick
Spec == Init /\ [][Next]_vars

\* No run of the component from construction reaches its search loop.
LoopNeverEntered == pc \in {"idle", "crashed"}

-----------------------------------------------------------------------------
(* CancelSpec: the component with the external cancel request              *)

\* The external cancel request the specification describes, made while the
\* optimizer is Running (optimizing is true).  The component has no input
\* for it and no statement of optimizeRacingLine reads one, so the request
\* changes nothing but its own flag.
RequestCancel ==
    /\ optimizing /\ ~cancelRequested
    /\ cancelRequested' = TRUE
    /\ UNCHANGED <<uiVars, runVars, call>>

CancelNext ==
    \/ HandleMouseDown \/ CalibrateAddPoint \/ HandleMouseMove
    \/ HandleMouseUp \/ SetMode
    \/ AutoTraceEdges \/ ComputeCenterlineFromEdges \/ ClearAll
    \/ SetKartMass \/ SetEnginePower \/ SetVTop \/ SetMaxBrakeAccel
    \/ SetTyreMu
    \/ SetOptIterations \/ SimulateClick \/ OptimizeClick
    \/ RequestCancel
CancelSpec == Init /\ [][CancelNext]_vars

-----------------------------------------------------------------------------
(* Properties of the optimizer run                                         *)

\* A call of optimizeRacingLine is in its search loop, where it can check
\* a signal, stop, and set optimizing back to false.
RunInProgress == pc = "loop"

C4_RunningHasARun == optimizing => RunInProgress

-----------------------------------------------------------------------------
(* Properties of the centerline builder and of the corridor builder        *)

\* The midpoint of two points.
MidOf(a, b) == <<RDiv(a[1] + b[1], 2), RDiv(a[2] + b[2], 2)>>

\* C11: computeCenterlineFromEdges with an edge of fewer than 5 points
\* leaves centerline, racing line and lap time unchanged; otherwise the new
\* centerline is the 4-round smoothing of the midpoints of the resampled
\* edges paired index-wise up to the shorter one (16 samples per pair, from
\* the first pair's midpoint to the last pair's), the racing line is equal
\* to the new centerline and the lap time is null.
C11_CenterlineBuilder ==
    [][ComputeCenterlineFromEdges =>
          IF Len(leftPoints) < 5 \/ Len(rightPoints) < 5
          THEN UNCHANGED <<centerline, racingLine, lapTime>>
          ELSE LET left  == resamplePath(leftPoints, 3)
                   right == resamplePath(rightPoints, 3)
                   n     == Min2(Len(left), Len(right))
               IN /\ Len(centerline') = 16 * n
                  /\ centerline'[1] = MidOf(left[1], right[1])
                  /\ centerline'[16 * n] = MidOf(left[n], right[n])
                  /\ racingLine' = centerline'
                  /\ lapTime' = <<>>]_vars

\* A centerline was built from two edges of different resampled lengths
\* and the racing line is its copy, with no lap time.
C11_Witness ==
    /\ Len(leftPoints) >= 5 /\ Len(rightPoints) >= 5
    /\ Len(resamplePath(leftPoints, 3)) # Len(resamplePath(rightPoints, 3))
    /\ Len(centerline) =
          16 * Min2(Len(resamplePath(leftPoints, 3)),
                    Len(resamplePath(rightPoints, 3)))
    /\ racingLine = centerline
    /\ lapTime = <<>>

C13_LookupsInRange ==
    LET left  == resamplePath(leftPoints, EdgeSpacing)
        right == resamplePath(rightPoints, EdgeSpacing)
        len   == Len(SeedPath(leftPoints, rightPoints))
    IN \A i \in 0..(len - 1) :
          /\ MathRound(i * Len(left), len) < Len(left)
          /\ MathRound(i * Len(right), len) < Len(right)

-----------------------------------------------------------------------------
(* GeomSpec: resamplePath and smoothPath applied to bounded inputs         *)

\* Longest input path tried.
MaxPathLen == 4
\* Most smoothing rounds tried.
MaxSmoothIters == 3

\* Integer pixel positions; the segments between them have integer lengths
\* (3-4-5 triangles), so the arc lengths are exact.
TestPoints == {<<x * Sub, y * Sub>> : x \in {0, 4, 8}, y \in {0, 3}}
TestPaths  == UNION {[1..n -> TestPoints] : n \in 0..MaxPathLen}
\* Spacings in pixels; the program always passes 3 (lines 131, 187).
TestSpacings == {1, 3}

GeomInit ==
    /\ InitUi /\ NoRun /\ NoEnv
    /\ \E pts \in TestPaths :
          \/ \E s \in TestSpacings :
                call = [op |-> "resamplePath", pts |-> pts, arg |-> s,
                        done |-> FALSE, out |-> <<>>]
          \/ \E k \in 0..MaxSmoothIters :
                call = [op |-> "smoothPath", pts |-> pts, arg |-> k,
                        done |-> FALSE, out |-> <<>>]

CallResample ==
    /\ call.op = "resamplePath" /\ ~call.done
    /\ call' = [call EXCEPT !.done = TRUE,
                            !.out = resamplePath(call.pts, call.arg)]
    /\ UNCHANGED <<uiVars, runVars, envVars>>

CallSmooth ==
    /\ call.op = "smoothPath" /\ ~call.done
    /\ call' = [call EXCEPT !.done = TRUE,
                            !.out = smoothPath(call.pts, call.arg)]
    /\ UNCHANGED <<uiVars, runVars, envVars>>

GeomNext == CallResample \/ CallSmooth
GeomSpec == GeomInit /\ [][GeomNext]_vars

SmoothDone == call.op = "smoothPath" /\ call.done
ResampleDone == call.op = "resamplePath" /\ call.done

\* C9 as stated: k rounds on n >= 3 points give n + (n-1)*(2^k - 1) points
\* with the end points kept; fewer than 3 points come back unchanged.
C9_SmoothCountAsStated ==
    SmoothDone =>
        LET n == Len(call.pts)  k == call.arg
        IN IF n < 3 THEN call.out = call.pts
           ELSE /\ Len(call.out) = n + (n - 1) * (Pow2(k) - 1)
                /\ call.out[1] = call.pts[1]
                /\ call.out[Len(call.out)] = call.pts[n]

\* C9 amended: every round doubles the count (first point, two points per
\* segment, last point), so k rounds on n >= 3 points give n * 2^k points;
\* the first and last points are the input's; fewer than 3 points come
\* back unchanged.
C9_SmoothCount ==
    SmoothDone =>
        LET n == Len(call.pts)  k == call.arg
        IN IF n < 3 THEN call.out = call.pts
           ELSE /\ Len(call.out) = n * Pow2(k)
                /\ call.out[1] = call.pts[1]
                /\ call.out[Len(call.out)] = call.pts[n]

\* A 3-point path smoothed twice: 12 points, not 9.
C9_Witness ==
    /\ SmoothDone /\ Len(call.pts) = 3 /\ call.arg = 2
    /\ Len(call.out) = 12
    /\ call.pts[1] # call.pts[2]

\* The arc length of the call's input path.
CallArcLength == ArcLength(call.pts, Len(call.pts))

\* C10 as stated: at least 2 points and spacing s > 0 give exactly
\* n = max(2, round(total / s)) points; fewer than 2 points come back
\* unchanged.
C10_ResampleCountAsStated ==
    ResampleDone =>
        IF Len(call.pts) < 2 THEN call.out = call.pts
        ELSE Len(call.out) = Max2(2, MathRound(CallArcLength, call.arg * Sub))

\* C10 amended: the result has n + 1 points, n = max(2, round(total / s)):
\* the loop runs i = 0..n inclusive, one point per end of the n equal arcs;
\* fewer than 2 points come back unchanged, and the call leaves its input
\* as it was.
C10_ResampleCount ==
    ResampleDone =>
        /\ IF Len(call.pts) < 2 THEN call.out = call.pts
           ELSE Len(call.out) =
                    Max2(2, MathRound(CallArcLength, call.arg * Sub)) + 1
        /\ call.pts \in TestPaths

\* A path of arc length 12 px resampled at 3 px: 5 points, not 4.
C10_Witness ==
    /\ ResampleDone /\ call.arg = 3 /\ Len(call.pts) >= 2
    /\ CallArcLength = 12 * Sub
    /\ Len(call.out) = 5

-----------------------------------------------------------------------------
(* SimSpec: simulateLap run pass by pass on bounded inputs                 *)

\* Longest path simulated.
MaxSimLen == 3

SimPaths == UNION {[1..n -> TestPoints] : n \in 0..MaxSimLen}
\* Physics values the number inputs of lines 300-308 and the calibration
\* can hold: each input keeps any non-zero number typed into it, negative
\* ones too.
SimOptions ==
    [pxToMeter : {20, 100, Infinity}, kartMass : {160}, tyreMu : {16},
     maxBrakeAccel : {-750, 750}, enginePower : {-50, 2, 8500},
     vTop : {5000000, 22000000}]

\* A call simulateLap(pts, {pxToMeter, tyreMu, maxBrakeAccel, enginePower,
\* vTop}) in a render whose state holds these values, as lines 211, 223 and
\* 313 make it.
SimInit ==
    /\ \E pts \in SimPaths, opt \in SimOptions :
          /\ UiWith(opt)
          /\ call = [op |-> "simulateLap", pts |-> pts, opt |-> opt,
                     stage |-> "start", round |-> 0, v |-> <<>>, out |-> <<>>]
    /\ NoRun /\ NoEnv

\* if(path.length<2) return null, line 143
SimReturnNull ==
    /\ call.op = "simulateLap" /\ call.stage = "start" /\ Len(call.pts) < 2
    /\ call' = [call EXCEPT !.stage = "null"]
    /\ UNCHANGED <<uiVars, runVars, envVars>>

\* Lines 144-164: distances, speed limits and the forward pass.
SimForward ==
    /\ call.op = "simulateLap" /\ call.stage = "start" /\ Len(call.pts) >= 2
    /\ call' = [call EXCEPT
                  !.stage = "forward",
                  !.v = ForwardPass(SimLimit(call.pts, call.opt, params),
                                    SimDist(call.pts, params),
                                    call.opt, Len(call.pts))]
    /\ UNCHANGED <<uiVars, runVars, envVars>>

\* One round of lines 166-173.
SimBackward ==
    /\ call.op = "simulateLap" /\ call.stage \in {"forward", "backward"}
    /\ call.round < BackwardRounds
    /\ call' = [call EXCEPT
                  !.stage = "backward",
                  !.round = call.round + 1,
                  !.v = BackwardRound(call.v, SimDist(call.pts, params),
                                      call.opt)]
    /\ UNCHANGED <<uiVars, runVars, envVars>>

\* Lines 175-181: the times and the returned record.
SimReturn ==
    /\ call.op = "simulateLap" /\ call.stage \in {"forward", "backward"}
    /\ call.round = BackwardRounds
    /\ call' = [call EXCEPT
                  !.stage = "done",
                  !.out = <<[time |-> TotalTime(call.v,
                                         SimDist(call.pts, params),
                                         Len(call.pts)),
                             speedProfile |-> call.v]>>]
    /\ UNCHANGED <<uiVars, runVars, envVars>>

SimNext == SimReturnNull \/ SimForward \/ SimBackward \/ SimReturn
SimSpec == SimInit /\ [][SimNext]_vars

\* The speed profile exists: after the forward pass, after each backward
\* round, and in the returned record.
SimHasProfile ==
    call.op = "simulateLap" /\ call.stage \in {"forward", "backward", "done"}

\* Every entry of the profile is a number in [0, vTop].
ProfileInRange ==
    \A i \in 1..Len(call.v) : call.v[i] >= 0 /\ call.v[i] <= call.opt.vTop

\* C8 as stated: for a path of at least 2 points and any bundle with a
\* positive top speed, every entry of the speed profile is >= 0 and
\* <= topSpeed after the forward pass and after each backward round.
C8_SpeedsInRangeAsStated ==
    (SimHasProfile /\ call.opt.vTop > 0) => ProfileInRange

\* C8 amended: the same for bundles whose engine power is not negative and
\* whose scale is finite.  A negative engine power makes a_forward
\* negative, the forward pass takes the square root of a negative number
\* and the profile holds NaN; with a scale of Infinity a segment between
\* two equal points has the length 0 * Infinity = NaN, and so has the
\* speed after it.
C8_SpeedsInRange ==
    (/\ SimHasProfile /\ call.opt.vTop > 0 /\ call.opt.enginePower >= 0
     /\ params.pxToMeter # Infinity)
        => ProfileInRange

\* C8 amended without a condition on the scale, and without one on the
\* engine power: neither holds.
SpeedsInRangeAnyScale ==
    (SimHasProfile /\ call.opt.vTop > 0 /\ call.opt.enginePower >= 0)
        => ProfileInRange
SpeedsInRangeAnyPower ==
    (SimHasProfile /\ call.opt.vTop > 0 /\ params.pxToMeter # Infinity)
        => ProfileInRange

\* A returned profile in which the forward pass was capped by the top speed
\* at one sample and the backward pass lowered another.
C8_Witness ==
    /\ call.op = "simulateLap" /\ call.stage = "done"
    /\ call.opt.enginePower >= 0 /\ call.opt.vTop > 0
    /\ \E i \in 1..Len(call.v) : call.v[i] = call.opt.vTop
    /\ call.v # ForwardPass(SimLimit(call.pts, call.opt, params),
                            SimDist(call.pts, params),
                            call.opt, Len(call.pts))

====
